---- MODULE Spec2Model ----
(***************************************************************************)
(* Model of packages/node/src/edge-functions/edge-handler.ts:              *)
(* createEdgeEventHandler compiles the entrypoint, starts the edge runtime *)
(* server and returns the request handler that proxies each request into   *)
(* that server.  Strings are sequences of one-character (or one-token)     *)
(* strings, so that template literals are concatenations.                  *)
(***************************************************************************)
EXTENDS Integers, Sequences, FiniteSets, TLC

VARIABLES
  entrypointRelativePath, \* argument of createEdgeEventHandler
  isMiddleware,           \* argument of createEdgeEventHandler
  pc,                     \* position of the createEdgeEventHandler call
  userCode,               \* const userCode (result of compileUserCode)
  server,                 \* const server (result of createEdgeRuntime)
  sandbox,                \* the edge-runtime server: "none" | "open" | "closed"
  hooks,                  \* number of callbacks registered with exitHook
  proc,                   \* the host process: state, exit code, who exited it
  calls,                  \* number of calls made to each collaborator
  closes,                 \* number of times server.close has been invoked
  log,                    \* console output, one line per element
  rpc,                    \* per request: position of the handler invocation
  reqMeta,                \* per request: url, method and headers of the message
  reqBody,                \* per request: the bytes still in the inbound stream
  payload,                \* per request: the payload of the POST in flight
  posts,                  \* per request: number of POSTs issued to server.url
  resp,                   \* per request: the sandbox's response
  wire,                   \* per request: response body bytes not yet read
  ret,                    \* per request: the VercelProxyResponse returned
  scenario,               \* the request replayed by the round-trip scenario
  hostEnv,                \* process.env of the host process
  contextProcess          \* the `process` global injected into the sandbox

vars == <<entrypointRelativePath, isMiddleware, pc, userCode, server, sandbox,
          hooks, proc, calls, closes, log, rpc, reqMeta, reqBody, payload, posts,
          resp, wire, ret, scenario, hostEnv, contextProcess>>

creationVars == <<pc, userCode, server, hooks, calls, contextProcess>>
requestVars == <<rpc, reqMeta, reqBody, payload, posts, resp, wire, ret>>
inputVars == <<entrypointRelativePath, isMiddleware, scenario, hostEnv>>

----------------------------------------------------------------------------
(* Bounds and input sets *)

MaxReq == 2

Requests == 1..MaxReq

\* entrypoints: (relativePath, isMiddleware)
Entrypoints ==
  { [rel |-> <<"p">>, mw |-> FALSE],
    [rel |-> <<"f", ".", "j">>, mw |-> FALSE],
    [rel |-> <<"a", ".", "b", ".", "c">>, mw |-> TRUE] }

RequestBodies == { <<>>, <<77>> }

\* url, method and headers of an inbound message
Messages ==
  { [url |-> "/", method |-> "POST", headers |-> <<>>],
    [url |-> "/api?x=1", method |-> "PUT",
     headers |-> <<[name |-> "content-type", values |-> <<"text/plain">>]>>] }

DefaultMessage == [url |-> "/", method |-> "POST", headers |-> <<>>]

Statuses == {200, 302, 499, 500}

ResponseBodies == {"", "boom"}

FAILED_HEADER == "x-vercel-failed"

ResponseHeaders ==
  { <<>>,
    <<[name |-> FAILED_HEADER, values |-> <<"edge-wrapper">>]>>,
    <<[name |-> FAILED_HEADER, values |-> <<"other">>]>> }

\* headers a redirect response of the sandbox may carry in addition
RedirectHeaders == { <<[name |-> "location", values |-> <<"/next">>]>> }

\* the headers the sandbox may send with status st
headersFor(st) ==
  ResponseHeaders \cup (IF st \in 300..399 THEN RedirectHeaders ELSE {})

----------------------------------------------------------------------------
(* Values *)

Undefined == [defined |-> FALSE, script |-> <<>>, wasmAssets |-> "none"]
NoServer == [defined |-> FALSE, url |-> ""]
NoResponse == [status |-> 0, headers |-> <<>>, body |-> ""]
NoReturn == [returned |-> FALSE, statusCode |-> 0, headers |-> <<>>,
             body |-> "", encoding |-> ""]
\* the host's environment: one variable, set, changed or unset
HostEnvironment == [SECRET |-> "v0"]
NoProcess == [defined |-> FALSE, keys |-> {}, envIsHostEnv |-> FALSE]

NoMessage == [url |-> "", method |-> "", headers |-> <<>>]
NoPayload == [url |-> "", method |-> "", headers |-> <<>>, body |-> <<>>]

----------------------------------------------------------------------------
(* Pure helpers *)

B64 == <<"A","B","C","D","E","F","G","H","I","J","K","L","M","N","O","P",
         "Q","R","S","T","U","V","W","X","Y","Z","a","b","c","d","e","f",
         "g","h","i","j","k","l","m","n","o","p","q","r","s","t","u","v",
         "w","x","y","z","0","1","2","3","4","5","6","7","8","9","+","/">>

RECURSIVE toBase64_lowBits(_)
\* mutant of toBase64: the low two bits of the first byte of a group are
\* shifted by two places instead of four
toBase64_lowBits(b) ==
  IF Len(b) = 0 THEN <<>>
  ELSE IF Len(b) = 1 THEN
    << B64[(b[1] \div 4) + 1], B64[((b[1] % 4) * 4) + 1], "=", "=" >>
  ELSE IF Len(b) = 2 THEN
    << B64[(b[1] \div 4) + 1],
       B64[((b[1] % 4) * 4 + (b[2] \div 16)) + 1],
       B64[((b[2] % 16) * 4) + 1], "=" >>
  ELSE
    << B64[(b[1] \div 4) + 1],
       B64[((b[1] % 4) * 4 + (b[2] \div 16)) + 1],
       B64[((b[2] % 16) * 4 + (b[3] \div 64)) + 1],
       B64[(b[3] % 64) + 1] >> \o toBase64_lowBits(SubSeq(b, 4, Len(b)))

RECURSIVE toBase64(_)
\* bodyBuffer.toString('base64')
toBase64(b) ==
  IF Len(b) = 0 THEN <<>>
  ELSE IF Len(b) = 1 THEN
    << B64[(b[1] \div 4) + 1], B64[((b[1] % 4) * 16) + 1], "=", "=" >>
  ELSE IF Len(b) = 2 THEN
    << B64[(b[1] \div 4) + 1],
       B64[((b[1] % 4) * 16 + (b[2] \div 16)) + 1],
       B64[((b[2] % 16) * 4) + 1], "=" >>
  ELSE
    << B64[(b[1] \div 4) + 1],
       B64[((b[1] % 4) * 16 + (b[2] \div 16)) + 1],
       B64[((b[2] % 16) * 4 + (b[3] \div 64)) + 1],
       B64[(b[3] % 64) + 1] >> \o toBase64(SubSeq(b, 4, Len(b)))

\* serializeRequest: the JSON payload built from the drained request
serializeRequest(message, bytes) ==
  [url |-> message.url, method |-> message.method,
   headers |-> message.headers, body |-> toBase64(bytes)]

RECURSIVE split(_)
\* entrypointRelativePath.split('.')
split(s) ==
  IF \A i \in 1..Len(s) : s[i] # "." THEN <<s>>
  ELSE LET i == CHOOSE k \in 1..Len(s) :
                  s[k] = "." /\ \A j \in 1..(k-1) : s[j] # "."
       IN <<SubSeq(s, 1, i - 1)>> \o split(SubSeq(s, i + 1, Len(s)))

RECURSIVE join(_)
\* parts.join('.')
join(parts) ==
  IF Len(parts) = 0 THEN <<>>
  ELSE IF Len(parts) = 1 THEN parts[1]
  ELSE parts[1] \o <<".">> \o join(Tail(parts))

\* mutant of extractUrlPath: everything after the first dot is dropped
extractUrlPath_firstSegment(rel) == split(rel)[1]

\* turns "api/some.func.js" into "api/some.func"
extractUrlPath(rel) ==
  LET parts == split(rel) IN
    IF Len(parts) = 1 THEN rel
    ELSE join(SubSeq(parts, 1, Len(parts) - 1))

\* response.headers.get(name): null when absent, else the values joined
RECURSIVE joinComma(_)
joinComma(vs) ==
  IF Len(vs) = 0 THEN <<>>
  ELSE IF Len(vs) = 1 THEN <<vs[1]>>
  ELSE <<vs[1], ", ">> \o joinComma(Tail(vs))

headersGet(h, name) ==
  IF \E i \in 1..Len(h) : h[i].name = name
    THEN LET i == CHOOSE k \in 1..Len(h) : h[k].name = name
         IN [isNull |-> FALSE, value |-> joinComma(h[i].values)]
    ELSE [isNull |-> TRUE, value |-> <<>>]

\* const isUserError = response.headers.get('x-vercel-failed') === 'edge-wrapper'
isUserError(r) ==
  headersGet(r.headers, FAILED_HEADER) = [isNull |-> FALSE, value |-> <<"edge-wrapper">>]

\* mutants of isFatal: the boundary excluded; the marker not looked at
isFatal_above500(r) == isUserError(r) /\ r.status > 500
isFatal_anyServerError(r) == r.status >= 500

\* if (isUserError && response.status >= 500)
isFatal(r) == isUserError(r) /\ r.status >= 500

\* the console.log line of the fatal path
errorLine(rel, body) ==
  <<"Error from API Route ">> \o extractUrlPath(rel) \o <<": ", body, "\n">>
    \o <<"    at (">> \o rel \o <<")">>

\* mutant of proxyResponse: the response headers are dropped
proxyResponse_noHeaders(r, body) ==
  [returned |-> TRUE, statusCode |-> r.status, headers |-> <<>>,
   body |-> body, encoding |-> "utf8"]

\* the object returned by the handler
proxyResponse(r, body) ==
  [returned |-> TRUE, statusCode |-> r.status, headers |-> r.headers,
   body |-> body, encoding |-> "utf8"]

\* the template literal assigned to userCode in compileUserCode
script(rel, mw) ==
  <<"\"use strict\";var regeneratorRuntime;", "<compiledFile.text>", ";",
    "const IS_MIDDLEWARE = ", (IF mw THEN "true" ELSE "false"), ";",
    "const ENTRYPOINT_LABEL = '">> \o rel \o <<"';", "<edgeHandlerTemplate>">>

----------------------------------------------------------------------------
(* Initial state: createEdgeEventHandler has just been called *)

\* everything but the arguments and the scenario
InitRest ==
  /\ pc = "start"
  /\ userCode = Undefined
  /\ server = NoServer
  /\ sandbox = "none"
  /\ hooks = 0
  /\ proc = [state |-> "running", code |-> 0, by |-> "none"]
  /\ calls = [build |-> 0, getContext |-> 0, runtime |-> 0, runServer |-> 0]
  /\ closes = 0
  /\ log = <<>>
  /\ rpc = [r \in Requests |-> "new"]
  /\ reqMeta = [r \in Requests |-> NoMessage]
  /\ reqBody = [r \in Requests |-> <<>>]
  /\ payload = [r \in Requests |-> NoPayload]
  /\ posts = [r \in Requests |-> 0]
  /\ resp = [r \in Requests |-> NoResponse]
  /\ wire = [r \in Requests |-> <<>>]
  /\ ret = [r \in Requests |-> NoReturn]
  /\ hostEnv = HostEnvironment
  /\ contextProcess = NoProcess

NoScenario == [message |-> NoMessage, body |-> <<>>]

Init ==
  /\ \E e \in Entrypoints :
       /\ entrypointRelativePath = e.rel
       /\ isMiddleware = e.mw
  /\ scenario = NoScenario
  /\ InitRest

\* mutant of Running: process.exit does not stop the handler's pending work
Running_afterExit == TRUE

Running == proc.state = "running"

----------------------------------------------------------------------------
(* Process termination.  The 'exit' event runs every callback registered  *)
(* with exitHook; the only callback this file registers is server.close.  *)

exitProcess(code, by) ==
  /\ proc' = [state |-> "exited", code |-> code, by |-> by]
  /\ closes' = closes + hooks
  /\ sandbox' = IF hooks > 0 /\ sandbox = "open" THEN "closed" ELSE sandbox

\* termination that does not come from the handler: normal exit or a signal
ExternalExit ==
  /\ Running
  /\ \E code \in {0, 130} : exitProcess(code, "external")
  /\ UNCHANGED <<inputVars, creationVars, log, requestVars>>

----------------------------------------------------------------------------
(* compileUserCode *)

\* mutant of catchCompile: the error is rethrown
catchCompile_rethrow(msg) == [threw |-> TRUE, lines |-> <<>>]

\* the catch block of compileUserCode
catchCompile(msg) ==
  [threw |-> FALSE,
   lines |-> << <<"Failed to compile user code for edge runtime.">>, <<msg>> >>]

\* the value compileUserCode returns after a build that produced output
compiled(rel, mw) ==
  [defined |-> TRUE, script |-> script(rel, mw), wasmAssets |-> "pending"]

\* mutant of CompileStart: a handler without a program compiles again
CompileStart_retry ==
  /\ Running
  /\ pc = "start" \/ (pc = "ready" /\ ~userCode.defined)
  /\ calls' = [calls EXCEPT !.build = @ + 1]
  /\ pc' = "compiling"
  /\ UNCHANGED <<inputVars, contextProcess, userCode, server, sandbox, hooks, proc, closes, log,
                 requestVars>>

\* createEdgeEventHandler calls compileUserCode, which awaits esbuild.build
CompileStart ==
  /\ Running
  /\ pc = "start"
  /\ calls' = [calls EXCEPT !.build = @ + 1]
  /\ pc' = "compiling"
  /\ UNCHANGED <<inputVars, contextProcess, userCode, server, sandbox, hooks, proc, closes, log,
                 requestVars>>

\* esbuild.build settles: output, no output file, or a build error
CompileDone ==
  /\ Running
  /\ pc = "compiling"
  /\ \E outcome \in {"ok", "noOutput", "buildError"} :
       IF outcome = "ok"
         THEN /\ userCode' = compiled(entrypointRelativePath, isMiddleware)
              /\ pc' = "createRuntime"
              /\ log' = log
         ELSE LET c == catchCompile(outcome) IN
              /\ userCode' = Undefined
              /\ pc' = IF c.threw THEN "threw" ELSE "createRuntime"
              /\ log' = log \o c.lines
  /\ UNCHANGED <<inputVars, contextProcess, server, sandbox, hooks, proc, calls, closes,
                 requestVars>>

----------------------------------------------------------------------------
(* createEdgeRuntime *)

\* mutant of catchRuntime: the error is rethrown
catchRuntime_rethrow(msg) == [threw |-> TRUE, lines |-> <<>>]

\* the catch block of createEdgeRuntime
catchRuntime(msg) ==
  [threw |-> FALSE,
   lines |-> << <<"Failed to instantiate edge runtime.">>, <<msg>> >>]

\* mutant of noParams: the check for an absent program is missing
noParams_unchecked(params) == FALSE

\* if (!params) return undefined
noParams(params) == ~params.defined

\* mutant of CreateRuntimeBegin: the assets are resolved eagerly, before the
\* check for an absent program
CreateRuntimeBegin_eager ==
  /\ Running
  /\ pc = "createRuntime"
  /\ calls' = [calls EXCEPT !.getContext = @ + 1]
  /\ IF noParams(userCode)
       THEN /\ server' = NoServer
            /\ pc' = "ready"
       ELSE /\ pc' = "awaitWasm"
            /\ server' = server
  /\ UNCHANGED <<inputVars, contextProcess, userCode, sandbox, hooks, proc, closes, log,
                 requestVars>>

\* createEdgeRuntime(userCode) up to its first await
CreateRuntimeBegin ==
  /\ Running
  /\ pc = "createRuntime"
  /\ IF noParams(userCode)
       THEN /\ server' = NoServer
            /\ pc' = "ready"
            /\ calls' = calls
       ELSE /\ calls' = [calls EXCEPT !.getContext = @ + 1]
            /\ pc' = "awaitWasm"
            /\ server' = server
  /\ UNCHANGED <<inputVars, contextProcess, userCode, sandbox, hooks, proc, closes, log,
                 requestVars>>

\* the `process` the extend callback assigns to the context: an object whose
\* only key is env, and env is the host's process.env object itself
injectedProcess == [defined |-> TRUE, keys |-> {"env"}, envIsHostEnv |-> TRUE]

\* wasmAssets.getContext() settles; then new EdgeRuntime(...) and runServer(...)
WasmDone ==
  /\ Running
  /\ pc = "awaitWasm"
  /\ \E outcome \in {"ok", "getContextError", "runtimeError"} :
       IF outcome = "ok"
         THEN /\ calls' = [calls EXCEPT !.runtime = @ + 1, !.runServer = @ + 1]
              /\ pc' = "awaitServer"
              /\ contextProcess' = injectedProcess
              /\ UNCHANGED <<server, log>>
         ELSE LET c == catchRuntime(outcome) IN
              /\ calls' = IF outcome = "runtimeError"
                            THEN [calls EXCEPT !.runtime = @ + 1] ELSE calls
              /\ server' = NoServer
              /\ pc' = IF c.threw THEN "threw" ELSE "ready"
              /\ log' = log \o c.lines
              /\ contextProcess' = contextProcess
  /\ UNCHANGED <<inputVars, userCode, sandbox, hooks, proc, closes, requestVars>>

\* runServer settles; then exitHook(server.close); return server
ServerDone ==
  /\ Running
  /\ pc = "awaitServer"
  /\ \E outcome \in {"ok", "runServerError", "exitHookError"} :
       IF outcome = "ok"
         THEN /\ sandbox' = "open"
              /\ hooks' = hooks + 1
              /\ server' = [defined |-> TRUE, url |-> "http://sandbox"]
              /\ pc' = "ready"
              /\ log' = log
         ELSE LET c == catchRuntime(outcome) IN
              /\ sandbox' = IF outcome = "exitHookError" THEN "open" ELSE sandbox
              /\ hooks' = hooks
              /\ server' = NoServer
              /\ pc' = IF c.threw THEN "threw" ELSE "ready"
              /\ log' = log \o c.lines
  /\ UNCHANGED <<inputVars, contextProcess, userCode, proc, calls, closes, requestVars>>

----------------------------------------------------------------------------
(* The handler returned by createEdgeEventHandler *)

\* mutant of HandlerAvailable: the handler is handed out before runServer settles
HandlerAvailable_beforeServer == pc \in {"awaitServer", "ready"}

\* the returned function exists once createEdgeEventHandler has resolved
HandlerAvailable == pc = "ready"

\* if (!server)
serverMissing == ~server.defined

\* the handler is called with a request (message m, body bytes b); requests
\* are numbered by arrival
InvokeWith(r, m, b) ==
  /\ Running
  /\ HandlerAvailable
  /\ rpc[r] = "new"
  /\ \A q \in Requests : q < r => rpc[q] # "new"
  /\ reqMeta' = [reqMeta EXCEPT ![r] = m]
  /\ reqBody' = [reqBody EXCEPT ![r] = b]
  /\ IF serverMissing
       THEN /\ exitProcess(1, "handler")
            /\ rpc' = [rpc EXCEPT ![r] = "exited"]
       ELSE /\ rpc' = [rpc EXCEPT ![r] = "drain"]
            /\ UNCHANGED <<proc, closes, sandbox>>
  /\ UNCHANGED <<inputVars, creationVars, log, payload, posts, resp, wire, ret>>

Invoke(r) == \E b \in RequestBodies : InvokeWith(r, DefaultMessage, b)

\* mutant of Drained: the POST is issued before the inbound body is drained
Drained_postFirst(r) ==
  /\ Running
  /\ rpc[r] = "drain"
  /\ payload' = [payload EXCEPT ![r] = serializeRequest(reqMeta[r], <<>>)]
  /\ posts' = [posts EXCEPT ![r] = @ + 1]
  /\ rpc' = [rpc EXCEPT ![r] = "fetch"]
  /\ UNCHANGED <<inputVars, creationVars, sandbox, proc, closes, log, resp, wire,
                 ret, reqMeta, reqBody>>

\* streamToBuffer settles; on success the payload is POSTed to server.url
Drained(r) ==
  /\ Running
  /\ rpc[r] = "drain"
  /\ \E outcome \in {"ok", "streamError"} :
       IF outcome = "ok"
         THEN /\ payload' = [payload EXCEPT
                   ![r] = serializeRequest(reqMeta[r], reqBody[r])]
              /\ posts' = [posts EXCEPT ![r] = @ + 1]
              /\ rpc' = [rpc EXCEPT ![r] = "fetch"]
         ELSE /\ rpc' = [rpc EXCEPT ![r] = "rejected"]
              /\ UNCHANGED <<payload, posts>>
  /\ reqMeta' = [reqMeta EXCEPT ![r] = NoMessage]
  /\ reqBody' = [reqBody EXCEPT ![r] = <<>>]
  /\ UNCHANGED <<inputVars, creationVars, sandbox, proc, closes, log, resp, wire,
                 ret>>

\* mutant of redirectMode: fetch's default, redirects are followed
redirectMode_follow == "follow"

\* redirect: 'manual'
redirectMode == "manual"

\* fetch follows a response itself only when it is a redirect with a Location
\* and the redirect option says so
followed(st, h) ==
  /\ redirectMode = "follow"
  /\ st \in 300..399
  /\ \E i \in 1..Len(h) : h[i].name = "location"

\* mutant of FetchDone: the call is given up after a timeout and answered
\* with a gateway-timeout response
FetchDone_timeout(r) ==
  /\ Running
  /\ rpc[r] = "fetch"
  /\ rpc' = [rpc EXCEPT ![r] = "returned"]
  /\ ret' = [ret EXCEPT ![r] = [returned |-> TRUE, statusCode |-> 504,
                                headers |-> <<>>, body |-> "",
                                encoding |-> "utf8"]]
  /\ payload' = [payload EXCEPT ![r] = NoPayload]
  /\ UNCHANGED <<inputVars, creationVars, sandbox, proc, closes, log, reqMeta,
                 reqBody, wire, resp, posts>>

\* fetch settles: a response (status and headers) or a transport failure
FetchDone(r) ==
  /\ Running
  /\ rpc[r] = "fetch"
  /\ \E outcome \in {"ok", "fetchError"} :
       IF outcome = "ok"
         THEN \E st \in Statuses : \E h \in headersFor(st) :
                IF followed(st, h)
                  THEN /\ posts' = [posts EXCEPT ![r] = @ + 1]
                       /\ UNCHANGED <<resp, rpc, payload>>
                  ELSE /\ resp' = [resp EXCEPT
                            ![r] = [status |-> st, headers |-> h, body |-> ""]]
                       /\ rpc' = [rpc EXCEPT ![r] = "text"]
                       /\ payload' = [payload EXCEPT ![r] = NoPayload]
                       /\ posts' = posts
         ELSE /\ rpc' = [rpc EXCEPT ![r] = "rejected"]
              /\ payload' = [payload EXCEPT ![r] = NoPayload]
              /\ UNCHANGED <<resp, posts>>
  /\ UNCHANGED <<inputVars, creationVars, sandbox, proc, closes, log, reqMeta,
                 reqBody, wire, ret>>

\* after response.text() resolved with body: the fatal check and the return
finishText(r, body) ==
  LET full == [resp[r] EXCEPT !.body = body] IN
  /\ resp' = [resp EXCEPT ![r] = full]
  /\ IF isFatal(full)
       THEN /\ log' = Append(log, errorLine(entrypointRelativePath, body))
            /\ exitProcess(1, "handler")
            /\ rpc' = [rpc EXCEPT ![r] = "exited"]
            /\ ret' = ret
       ELSE /\ ret' = [ret EXCEPT ![r] = proxyResponse(full, body)]
            /\ rpc' = [rpc EXCEPT ![r] = "returned"]
            /\ UNCHANGED <<log, proc, closes, sandbox>>

\* response.text() settles; then the fatal check and the return
TextDone(r) ==
  /\ Running
  /\ rpc[r] = "text"
  /\ \E outcome \in {"ok", "textError"} :
       IF outcome = "ok"
         THEN \E body \in ResponseBodies : finishText(r, body)
         ELSE /\ rpc' = [rpc EXCEPT ![r] = "rejected"]
              /\ UNCHANGED <<resp, ret, log, proc, closes, sandbox>>
  /\ UNCHANGED <<inputVars, creationVars, reqMeta, reqBody, payload, posts, wire>>

\* a response.text() that resolves: the body bytes read as UTF-8 (one and two
\* byte sequences; any other byte decodes to U+FFFD)
RECURSIVE utf8Decode(_)
utf8Decode(b) ==
  IF Len(b) = 0 THEN <<>>
  ELSE IF b[1] < 128 THEN <<b[1]>> \o utf8Decode(Tail(b))
  ELSE IF b[1] \in 194..223 /\ Len(b) >= 2 /\ b[2] \in 128..191
    THEN <<(b[1] - 192) * 64 + (b[2] - 128)>> \o utf8Decode(SubSeq(b, 3, Len(b)))
  ELSE <<65533>> \o utf8Decode(Tail(b))

----------------------------------------------------------------------------

Next ==
  \/ CompileStart
  \/ CompileDone
  \/ CreateRuntimeBegin
  \/ WasmDone
  \/ ServerDone
  \/ ExternalExit
  \/ \E r \in Requests : Invoke(r)
  \/ \E r \in Requests : Drained(r)
  \/ \E r \in Requests : FetchDone(r)
  \/ \E r \in Requests : TextDone(r)

Spec == Init /\ [][Next]_vars

----------------------------------------------------------------------------
(* Vocabulary of the properties *)

CompileFailed == pc \notin {"start", "compiling"} /\ ~userCode.defined

StartFailed == pc = "ready" /\ userCode.defined /\ ~server.defined

ExitedByHandler == proc.state = "exited" /\ proc.by = "handler"

ExitOne == [state |-> "exited", code |-> 1, by |-> "handler"]

\* the failure-signal header is present with the value edge-wrapper
HasMarker(h) ==
  \E i \in 1..Len(h) :
    h[i].name = "x-vercel-failed" /\ h[i].values = <<"edge-wrapper">>

\* sub occurs in line as a contiguous run
Contains(line, sub) ==
  \E i \in 1..(Len(line) - Len(sub) + 1) :
    SubSeq(line, i, i + Len(sub) - 1) = sub

LastLine == log[Len(log)]

----------------------------------------------------------------------------
(* Properties *)

\* C1: if compilation fails, no sandbox is ever created (no asset resolution,
\* no EdgeRuntime, no runServer, no exit hook) and every request passed to the
\* handler ends the process with exit code 1, without any POST to a sandbox
\* and without a returned response.
C1_CompileFailedNoSandbox ==
  CompileFailed =>
    /\ calls.getContext = 0 /\ calls.runtime = 0 /\ calls.runServer = 0
    /\ hooks = 0 /\ sandbox = "none" /\ ~server.defined
    /\ \A r \in Requests :
         /\ rpc[r] \in {"new", "exited"}
         /\ posts[r] = 0
         /\ ~ret[r].returned
         /\ rpc[r] = "exited" => proc = ExitOne

C1_Witness ==
  CompileFailed /\ pc = "ready" /\ rpc[1] = "exited" /\ proc = ExitOne

\* C2: a response with the failure-signal header and status >= 500 (500
\* included) makes the handler log a line holding the route label and the
\* response body and end the process with exit code 1, returning nothing;
\* the same header with a status below 500 yields a returned response.
C2_FatalUserError ==
  \A r \in Requests :
    /\ (rpc[r] = "exited" /\ server.defined) =>
         /\ HasMarker(resp[r].headers) /\ resp[r].status >= 500
         /\ proc = ExitOne
         /\ ~ret[r].returned
         /\ Len(log) > 0
         /\ Contains(LastLine, extractUrlPath(entrypointRelativePath))
         /\ Contains(LastLine, <<resp[r].body>>)
    /\ rpc[r] = "returned" =>
         /\ ~(HasMarker(resp[r].headers) /\ resp[r].status >= 500)
         /\ ret[r].returned

C2_Witness ==
  \E r, q \in Requests :
    /\ rpc[r] = "exited" /\ server.defined
    /\ resp[r].status = 500 /\ resp[r].body = "boom"
    /\ rpc[q] = "returned" /\ HasMarker(resp[q].headers) /\ resp[q].status = 499

\* C3: every response that is not a fatal user error is returned unmodified:
\* statusCode, headers and body are those of the sandbox's response, the
\* encoding is "utf8", and the handler does not end the process for it.
C3_PassThrough ==
  /\ \A r \in Requests :
       /\ rpc[r] = "returned" =>
            ret[r] = [returned |-> TRUE, statusCode |-> resp[r].status,
                      headers |-> resp[r].headers, body |-> resp[r].body,
                      encoding |-> "utf8"]
       /\ (rpc[r] = "exited" /\ server.defined) =>
            (HasMarker(resp[r].headers) /\ resp[r].status >= 500)
  /\ ExitedByHandler => \E r \in Requests : rpc[r] = "exited"

C3_Witness ==
  \E r, q \in Requests :
    /\ Running
    /\ rpc[r] = "returned" /\ resp[r].status = 500 /\ resp[r].body = ""
    /\ resp[r].headers = <<[name |-> "x-vercel-failed", values |-> <<"other">>]>>
    /\ rpc[q] = "returned" /\ resp[q].status = 499 /\ HasMarker(resp[q].headers)

\* C4: when the entrypoint fails to bundle, createEdgeEventHandler does not
\* throw, and the handler ends the process (exit code 1) on the first request
\* and never while no request has been made.
C4_ExitOnFirstRequestOnly ==
  /\ pc # "threw"
  /\ CompileFailed =>
       /\ (\A r \in Requests : rpc[r] = "new") => ~ExitedByHandler
       /\ rpc[1] # "new" => (proc = ExitOne /\ rpc[1] = "exited")
       /\ \A r \in Requests : r > 1 => rpc[r] = "new"

C4_Witness ==
  /\ CompileFailed /\ rpc[1] = "exited" /\ proc = ExitOne
  /\ Len(log) = 2 /\ calls.build = 1

\* C5: compilation has settled before sandbox startup begins, startup has
\* settled before the handler accepts a request, and no request is POSTed to
\* a sandbox whose server has not finished starting.
C5_Ordering ==
  /\ (calls.getContext > 0 \/ calls.runtime > 0 \/ calls.runServer > 0) =>
       (pc \notin {"start", "compiling"} /\ calls.build = 1)
  /\ pc \in {"awaitWasm", "awaitServer"} => userCode.defined
  /\ \A r \in Requests :
       /\ rpc[r] # "new" => pc = "ready"
       /\ posts[r] > 0 => (server.defined /\ sandbox # "none" /\ hooks = 1)

C5_Witness ==
  \E r \in Requests : posts[r] = 1 /\ rpc[r] = "fetch" /\ sandbox = "open"

\* C6: a failure anywhere in sandbox startup is caught and turned into an
\* absent handle: createEdgeEventHandler does not throw, nothing exits before
\* a request is made, and the handler ends the process with exit code 1 on
\* every request without calling a sandbox.
C6_StartFailureCaught ==
  /\ pc # "threw"
  /\ (pc = "ready" /\ userCode.defined /\ calls.getContext = 1 /\ hooks = 0) =>
       ~server.defined
  /\ StartFailed =>
       /\ (\A r \in Requests : rpc[r] = "new") => ~ExitedByHandler
       /\ \A r \in Requests :
            /\ rpc[r] \in {"new", "exited"}
            /\ posts[r] = 0 /\ ~ret[r].returned
            /\ rpc[r] = "exited" => proc = ExitOne

C6_Witness ==
  /\ StartFailed /\ rpc[1] = "exited" /\ proc = ExitOne
  /\ sandbox = "open" /\ hooks = 0

\* C7: compilation and sandbox startup each run at most once, a request is
\* POSTed at most once, and once the handler exists nothing compiles or
\* starts again: its program, its handle and the sandbox calls stay as they
\* are, so a handler without a handle never gets one.
C7_NoRetry ==
  /\ [](/\ calls.build <= 1 /\ calls.getContext <= 1
        /\ calls.runtime <= 1 /\ calls.runServer <= 1 /\ hooks <= 1
        /\ \A r \in Requests : posts[r] <= 1)
  /\ [][pc = "ready" =>
          /\ pc' = "ready" /\ userCode' = userCode /\ server' = server
          /\ calls' = calls /\ hooks' = hooks]_vars

C7_Witness ==
  /\ \A r \in Requests : rpc[r] = "returned" /\ posts[r] = 1
  /\ calls.build = 1 /\ calls.getContext = 1
  /\ calls.runtime = 1 /\ calls.runServer = 1 /\ hooks = 1

\* C8: the handler ends the process only with exit code 1 and only when
\* (a) a request arrives and there is no handle or (b) the response has the
\* failure-signal header and status >= 500; a failed POST, body read or
\* draining does not end the process.
C8_ExitCauses ==
  /\ ExitedByHandler =>
       /\ proc.code = 1
       /\ Cardinality({r \in Requests : rpc[r] = "exited"}) = 1
       /\ \A r \in Requests : rpc[r] = "exited" =>
            \/ ~server.defined /\ posts[r] = 0
            \/ /\ server.defined
               /\ HasMarker(resp[r].headers) /\ resp[r].status >= 500
  /\ ~ExitedByHandler => \A r \in Requests : rpc[r] # "exited"

C8_Witness ==
  \E r \in Requests :
    /\ Running
    /\ rpc[r] = "rejected" /\ posts[r] = 1 /\ resp[r] = NoResponse

\* C9: whenever the process ends after the sandbox server became live, the
\* server is closed by the registered exit hook; at most one hook is
\* registered, only after the server started, and when the server never
\* started there is no hook and no close.
C9_ClosedOnExit ==
  /\ hooks <= 1
  /\ hooks = 1 => sandbox # "none"
  /\ sandbox = "none" => (hooks = 0 /\ closes = 0)
  /\ (proc.state = "exited" /\ sandbox # "none") =>
       (sandbox = "closed" /\ closes = 1)


\* C11: when startup fails after the local server has started, the server is
\* closed before the startup yields no handle: the handler is never without a
\* handle while a started server stays open with no hook to close it.
C11_NoOrphanServer ==
  (pc = "ready" /\ ~server.defined) => ~(sandbox = "open" /\ hooks = 0)


\* C12: the asset set's getContext is invoked exactly once per handler when
\* compilation succeeded, only after compilation has settled, never when
\* compilation failed, and never again while requests are handled.
C12_ResolveOnce ==
  /\ calls.getContext <= 1
  /\ calls.getContext > 0 =>
       (userCode.defined /\ calls.build = 1
          /\ pc \notin {"start", "compiling", "createRuntime"})
  /\ CompileFailed => calls.getContext = 0
  /\ (userCode.defined /\ pc \in {"awaitWasm", "awaitServer", "ready"}) =>
       calls.getContext = 1
  /\ \A r \in Requests :
       rpc[r] # "new" =>
         calls.getContext = (IF userCode.defined THEN 1 ELSE 0)

C12_Witness ==
  /\ userCode.defined /\ calls.getContext = 1
  /\ \A r \in Requests : rpc[r] = "returned"


\* C13: every request that reaches the sandbox is POSTed exactly once,
\* whatever the response status; a 3xx response is not followed by another
\* call and its status and headers (Location included) are returned as sent.
C13_OnePostNoFollow ==
  \A r \in Requests :
    /\ posts[r] <= 1
    /\ rpc[r] \in {"fetch", "text", "returned"} => posts[r] = 1
    /\ (rpc[r] = "exited" /\ server.defined) => posts[r] = 1
    /\ (rpc[r] = "returned" /\ resp[r].status \in 300..399) =>
         /\ ret[r].statusCode = resp[r].status
         /\ ret[r].headers = resp[r].headers

C13_Witness ==
  \E r \in Requests :
    /\ rpc[r] = "returned" /\ posts[r] = 1
    /\ ret[r].statusCode = 302
    /\ ret[r].headers = <<[name |-> "location", values |-> <<"/next">>]>>


----------------------------------------------------------------------------
(* Round trip through a sandbox that echoes the request body *)

MaxBodyLen == 3

ByteSet == {77, 195, 169, 255}

\* the byte sequences of at most MaxBodyLen bytes
Bodies == UNION { [1..k -> ByteSet] : k \in 0..MaxBodyLen }

\* the headers the echoing sandbox sends
EchoHeaders == <<[name |-> "content-type", values |-> <<"text/plain">>]>>

B64Index(c) == (CHOOSE i \in 1..64 : B64[i] = c) - 1

IsB64Text(s) ==
  /\ Len(s) % 4 = 0
  /\ \A i \in 1..Len(s) :
       \/ \E k \in 1..64 : B64[k] = s[i]
       \/ s[i] = "=" /\ i > Len(s) - 2 /\ (i = Len(s) \/ s[i + 1] = "=")

RECURSIVE fromBase64(_)
\* the decoding the echoing sandbox applies to the payload's body
fromBase64(s) ==
  IF Len(s) = 0 THEN <<>>
  ELSE IF ~IsB64Text(s) THEN <<-1>>
  ELSE LET i1 == B64Index(s[1])
           i2 == B64Index(s[2])
       IN IF s[3] = "=" THEN << i1 * 4 + (i2 \div 16) >>
          ELSE LET i3 == B64Index(s[3]) IN
            IF s[4] = "="
              THEN << i1 * 4 + (i2 \div 16), (i2 % 16) * 16 + (i3 \div 4) >>
              ELSE << i1 * 4 + (i2 \div 16), (i2 % 16) * 16 + (i3 \div 4),
                      (i3 % 4) * 64 + B64Index(s[4]) >>
                   \o fromBase64(SubSeq(s, 5, Len(s)))

InitRoundTrip ==
  /\ \E e \in Entrypoints :
       /\ entrypointRelativePath = e.rel
       /\ isMiddleware = e.mw
  /\ \E m \in Messages, b \in Bodies : scenario = [message |-> m, body |-> b]
  /\ InitRest

\* the handler is called with the scenario's request
InvokeScenario(r) == InvokeWith(r, scenario.message, scenario.body)

\* the sandbox answers 200 with the decoded body of the payload
EchoFetchDone(r) ==
  /\ Running
  /\ rpc[r] = "fetch"
  /\ resp' = [resp EXCEPT
       ![r] = [status |-> 200, headers |-> EchoHeaders, body |-> ""]]
  /\ wire' = [wire EXCEPT ![r] = fromBase64(payload[r].body)]
  /\ rpc' = [rpc EXCEPT ![r] = "text"]
  /\ payload' = [payload EXCEPT ![r] = NoPayload]
  /\ UNCHANGED <<inputVars, creationVars, sandbox, proc, closes, log, reqMeta,
                 reqBody, posts, ret>>

\* response.text() resolves with the echoed bytes read as UTF-8
EchoTextDone(r) ==
  /\ Running
  /\ rpc[r] = "text"
  /\ finishText(r, utf8Decode(wire[r]))
  /\ wire' = [wire EXCEPT ![r] = <<>>]
  /\ UNCHANGED <<inputVars, creationVars, reqMeta, reqBody, payload, posts>>

NextRoundTrip ==
  \/ CompileStart
  \/ CompileDone
  \/ CreateRuntimeBegin
  \/ WasmDone
  \/ ServerDone
  \/ \E r \in Requests : InvokeScenario(r)
  \/ \E r \in Requests : Drained(r)
  \/ \E r \in Requests : EchoFetchDone(r)
  \/ \E r \in Requests : EchoTextDone(r)

SpecRoundTrip == InitRoundTrip /\ [][NextRoundTrip]_vars

\* C14: for every body B the payload POSTed carries the request's url, method
\* and headers and a body that is base64(B); with a sandbox that echoes the
\* decoded body with status 200 the handler returns statusCode 200, B read as
\* UTF-8, encoding "utf8" and the headers the sandbox sent.
C14_RoundTrip ==
  /\ toBase64(<<77>>) = <<"T", "Q", "=", "=">>
  /\ toBase64(<<77, 97>>) = <<"T", "W", "E", "=">>
  /\ toBase64(<<77, 97, 110>>) = <<"T", "W", "F", "u">>
  /\ toBase64(<<255>>) = <<"/", "w", "=", "=">>
  /\ \A r \in Requests :
       /\ rpc[r] = "fetch" =>
            /\ payload[r].url = scenario.message.url
            /\ payload[r].method = scenario.message.method
            /\ payload[r].headers = scenario.message.headers
            /\ Len(payload[r].body) = 4 * ((Len(scenario.body) + 2) \div 3)
            /\ IsB64Text(payload[r].body)
            /\ fromBase64(payload[r].body) = scenario.body
       /\ rpc[r] = "text" => wire[r] = scenario.body
       /\ rpc[r] = "returned" =>
            ret[r] = [returned |-> TRUE, statusCode |-> 200,
                      headers |-> EchoHeaders,
                      body |-> utf8Decode(scenario.body), encoding |-> "utf8"]

C14_Witness ==
  \E r \in Requests :
    /\ rpc[r] = "returned"
    /\ scenario.body = <<195, 169, 255>>
    /\ scenario.message.method = "PUT"
    /\ ret[r].body = <<233, 65533>>


----------------------------------------------------------------------------
(* Arbitrary relative paths: one request through a handler whose entrypoint *)
(* path is any short string over PathChars                                 *)

MaxPathLen == 3

PathChars == {"a", ".", "'", "\\", "\n"}

Paths == UNION { [1..k -> PathChars] : k \in 1..MaxPathLen }

InitPaths ==
  /\ entrypointRelativePath \in Paths
  /\ isMiddleware \in BOOLEAN
  /\ scenario = NoScenario
  /\ InitRest

NextPaths ==
  \/ CompileStart
  \/ CompileDone
  \/ CreateRuntimeBegin
  \/ WasmDone
  \/ ServerDone
  \/ Invoke(1)
  \/ Drained(1)
  \/ FetchDone(1)
  \/ TextDone(1)

SpecPaths == InitPaths /\ [][NextPaths]_vars

NoDot(p) == \A i \in 1..Len(p) : p[i] # "."

\* label is p without its last '.'-delimited segment and the '.' before it
IsRouteLabel(label, p) ==
  IF NoDot(p) THEN label = p
  ELSE \E k \in 1..Len(p) :
         /\ p[k] = "."
         /\ NoDot(SubSeq(p, k + 1, Len(p)))
         /\ label = SubSeq(p, 1, k - 1)
         /\ label \o <<".">> \o SubSeq(p, k + 1, Len(p)) = p

\* the route label printed in the last console line, and the path printed in
\* its stack frame
LoggedLabel == SubSeq(LastLine, 2, Len(LastLine) - 5 - Len(entrypointRelativePath))
LoggedPath ==
  SubSeq(LastLine, Len(LastLine) - Len(entrypointRelativePath), Len(LastLine) - 1)

\* C15: the route label of a path without '.' is the path; otherwise it is
\* the path without its last '.'-delimited segment and the '.' before it
\* ("api/some.func.js" -> "api/some.func", "api/plain" -> "api/plain",
\* "a.b.c" -> "a.b"); the path itself is left as it was.
C15_RouteLabel ==
  /\ extractUrlPath(<<"a","p","i","/","s","o","m","e",".","f","u","n","c",".","j","s">>)
       = <<"a","p","i","/","s","o","m","e",".","f","u","n","c">>
  /\ extractUrlPath(<<"a","p","i","/","p","l","a","i","n">>)
       = <<"a","p","i","/","p","l","a","i","n">>
  /\ extractUrlPath(<<"a",".","b",".","c">>) = <<"a",".","b">>
  /\ IsRouteLabel(extractUrlPath(entrypointRelativePath), entrypointRelativePath)
  /\ (ExitedByHandler /\ server.defined) =>
       /\ Len(LastLine) >= 6 + Len(entrypointRelativePath)
       /\ IsRouteLabel(LoggedLabel, entrypointRelativePath)
       /\ LoggedPath = entrypointRelativePath

C15_Witness ==
  /\ ExitedByHandler /\ server.defined
  /\ entrypointRelativePath = <<".", "a", ".">>
  /\ LoggedLabel = <<".", "a">>

\* how a script engine reads the single-quoted literal whose text starts at
\* the head of seq: its value, and what follows its closing quote
RECURSIVE readLiteral(_, _)
readLiteral(seq, acc) ==
  IF Len(seq) = 0 THEN [ok |-> FALSE, value |-> acc, rest |-> <<>>]
  ELSE IF seq[1] = "';" THEN [ok |-> TRUE, value |-> acc, rest |-> Tail(seq)]
  ELSE IF seq[1] = "'" THEN [ok |-> TRUE, value |-> acc, rest |-> Tail(seq)]
  ELSE IF seq[1] = "\n" THEN [ok |-> FALSE, value |-> acc, rest |-> Tail(seq)]
  ELSE IF seq[1] = "\\" THEN
    IF Len(seq) < 2 THEN [ok |-> FALSE, value |-> acc, rest |-> <<>>]
    ELSE IF seq[2] = "';"
      THEN readLiteral(<<";">> \o SubSeq(seq, 3, Len(seq)), acc \o <<"'">>)
    ELSE IF seq[2] = "\n" THEN readLiteral(SubSeq(seq, 3, Len(seq)), acc)
    ELSE readLiteral(SubSeq(seq, 3, Len(seq)), acc \o <<seq[2]>>)
  ELSE readLiteral(Tail(seq), acc \o <<seq[1]>>)

\* C16: the script of a successful compile declares IS_MIDDLEWARE with the
\* supplied flag and ENTRYPOINT_LABEL with a value equal to the supplied
\* relative path (also when the path holds a quote, a backslash or a line
\* break), after the strict-mode prologue and the bundle and before the
\* harness template.
C16_ScriptConstants ==
  userCode.defined =>
    LET s == userCode.script
        lit == readLiteral(SubSeq(s, 8, Len(s)), <<>>)
    IN /\ s[1] = "\"use strict\";var regeneratorRuntime;"
       /\ s[2] = "<compiledFile.text>"
       /\ s[4] = "const IS_MIDDLEWARE = "
       /\ s[5] = (IF isMiddleware THEN "true" ELSE "false")
       /\ s[7] = "const ENTRYPOINT_LABEL = '"
       /\ lit.ok
       /\ lit.value = entrypointRelativePath
       /\ lit.rest = <<"<edgeHandlerTemplate>">>


----------------------------------------------------------------------------
(* Sandboxed code that writes to the process.env it was given *)

EnvValues == {"v0", "v1", "<unset>"}

\* user code inside the sandbox assigns (or, with "<unset>", deletes) a key
\* of its process.env while it serves an invocation; the write lands in the
\* host's environment when that env is the host's own object
sandboxEnvWrite(v) ==
  /\ Running
  /\ sandbox = "open"
  /\ contextProcess.defined
  /\ \E r \in Requests : rpc[r] = "fetch"
  /\ hostEnv' = IF contextProcess.envIsHostEnv
                  THEN [hostEnv EXCEPT !.SECRET = v] ELSE hostEnv
  /\ UNCHANGED <<entrypointRelativePath, isMiddleware, scenario, creationVars,
                 sandbox, proc, closes, log, requestVars>>

SandboxAssignEnv == \E v \in EnvValues \ {"<unset>"} : sandboxEnvWrite(v)

SandboxDeleteEnv == sandboxEnvWrite("<unset>")

NextEnv ==
  \/ CompileStart
  \/ CompileDone
  \/ CreateRuntimeBegin
  \/ WasmDone
  \/ ServerDone
  \/ Invoke(1)
  \/ Drained(1)
  \/ FetchDone(1)
  \/ TextDone(1)
  \/ SandboxAssignEnv
  \/ SandboxDeleteEnv

SpecEnv == Init /\ [][NextEnv]_vars

\* C17: the environment injected into the sandbox is a read-only view:
\* nothing sandboxed code does to its process.env (assigning or deleting a
\* key) changes the host's environment, and the injected process exposes
\* nothing but env.
C17_EnvReadOnly ==
  /\ hostEnv = HostEnvironment
  /\ contextProcess.defined => contextProcess.keys = {"env"}


----------------------------------------------------------------------------

\* the positions a request's handling may move between in one step
RequestSteps ==
  { <<"new", "drain">>, <<"new", "exited">>,
    <<"drain", "fetch">>, <<"drain", "rejected">>,
    <<"fetch", "text">>, <<"fetch", "rejected">>,
    <<"text", "returned">>, <<"text", "exited">>, <<"text", "rejected">> }

\* C18: within one request the inbound body is drained and the payload built
\* before the POST is issued, the response body is read before the fatal
\* check, and the fatal check comes before any response is returned; with no
\* handle the process exits before the body is read.
C18_StepOrder ==
  [][\A r \in Requests :
       /\ rpc'[r] # rpc[r] => <<rpc[r], rpc'[r]>> \in RequestSteps
       /\ posts'[r] # posts[r] =>
            /\ rpc[r] = "drain" /\ posts'[r] = posts[r] + 1
            /\ reqBody'[r] = <<>>
            /\ payload'[r] = [url |-> reqMeta[r].url, method |-> reqMeta[r].method,
                              headers |-> reqMeta[r].headers,
                              body |-> toBase64(reqBody[r])]
       /\ (rpc[r] = "fetch" /\ rpc'[r] = "text") =>
            (ret' = ret /\ proc' = proc /\ log' = log)
       /\ ret'[r] # ret[r] =>
            /\ rpc[r] = "text" /\ rpc'[r] = "returned"
            /\ ret'[r].body = resp'[r].body
            /\ ~(HasMarker(resp'[r].headers) /\ resp'[r].status >= 500)
       /\ (rpc[r] = "text" /\ rpc'[r] = "exited") =>
            /\ proc'.state = "exited" /\ ret'[r] = ret[r]
            /\ HasMarker(resp'[r].headers) /\ resp'[r].status >= 500
       /\ (rpc[r] = "new" /\ rpc'[r] # "new") =>
            IF server.defined
              THEN rpc'[r] = "drain" /\ proc' = proc
              ELSE /\ rpc'[r] = "exited" /\ proc'.state = "exited"
                   /\ posts'[r] = 0 /\ payload'[r] = NoPayload
     ]_vars

C18_Witness ==
  \E r, q \in Requests :
    /\ rpc[r] = "returned" /\ posts[r] = 1 /\ ret[r].body = "boom"
    /\ rpc[q] = "exited" /\ resp[q].status = 500


----------------------------------------------------------------------------

\* the handling of request r has ended
Settled(r) == rpc[r] \in {"returned", "rejected", "exited"}

\* C19 as stated: with concurrent requests, each request yields at most one
\* response and exactly one unless the process terminates first, and after a
\* request has triggered the exit no request returns a response.
C19_ExactlyOneUnlessExit ==
  \A r \in Requests :
    /\ ret[r].returned => rpc[r] = "returned"
    /\ (Running /\ Settled(r)) => ret[r].returned
    /\ (~Running /\ rpc[r] # "returned") => ~ret[r].returned

\* C19 as amended: each request yields at most one response; it yields one
\* when its response body has been read, the response is not fatal and the
\* process is still running, and none when its draining, its POST or its
\* body read fails; after the process has exited no request returns one.
C19_AtMostOneResponse ==
  /\ [](\A r \in Requests :
          /\ ret[r].returned <=> rpc[r] = "returned"
          /\ rpc[r] = "rejected" => ~ret[r].returned)
  /\ [][\A r \in Requests :
          /\ ret[r].returned => (ret'[r] = ret[r] /\ rpc'[r] = rpc[r])
          /\ (rpc[r] = "text" /\ rpc'[r] \notin {"text", "rejected"}
                /\ proc'.state = "running") => ret'[r].returned
          /\ proc.state = "exited" => (ret' = ret /\ rpc' = rpc)]_vars

C19_Witness ==
  \E r, q \in Requests :
    /\ rpc[r] = "exited" /\ server.defined /\ proc = ExitOne
    /\ rpc[q] = "text" /\ resp[q].status = 200 /\ ~ret[q].returned


----------------------------------------------------------------------------

\* C20: there is no timeout or cancellation: a request leaves the pending
\* sandbox call only when that call settles (a response or a rejection), it
\* returns a response only after the response body has been read, and while
\* its call is pending it neither returns nor ends the process; other
\* requests whose calls settle can still be answered meanwhile.
C20_NoTimeout ==
  /\ [](\A r, q \in Requests :
          (Running /\ r # q /\ rpc[r] = "fetch") =>
            /\ ~ret[r].returned
            /\ rpc[q] = "fetch" => ENABLED FetchDone(q)
            /\ rpc[q] = "text" => ENABLED TextDone(q))
  /\ [][\A r \in Requests :
          /\ (rpc[r] = "fetch" /\ rpc'[r] # "fetch") =>
               /\ rpc'[r] \in {"text", "rejected"}
               /\ rpc'[r] = "text" =>
                    (resp'[r].status \in Statuses /\ resp'[r] # resp[r])
               /\ proc' = proc /\ ret' = ret
          /\ (rpc[r] = "fetch" /\ rpc'[r] = "fetch") => ret'[r] = ret[r]
          /\ ret'[r] # ret[r] => rpc[r] = "text"
          /\ (rpc[r] = "fetch" /\ proc.state = "running"
                /\ proc'.state = "exited" /\ proc'.by = "handler") =>
               \E q \in Requests :
                 q # r /\ rpc[q] \in {"new", "text"} /\ rpc'[q] = "exited"]_vars

C20_Witness ==
  \E r, q \in Requests :
    /\ Running
    /\ rpc[r] = "fetch" /\ posts[r] = 1 /\ ~ret[r].returned
    /\ r < q /\ rpc[q] = "returned"

====
